---- MODULE Spec2Model ----
(***************************************************************************)
(* A model of src/main.py: the in-memory DocumentStore, the tool functions *)
(* built on it, the list of tools registered with the agent, and the       *)
(* conversational loop of main().                                          *)
(*                                                                         *)
(* Python strings are sequences of one-character strings; a Python dict is *)
(* a sequence of [key, value] entries kept in insertion order.             *)
(***************************************************************************)
EXTENDS Integers, Sequences, FiniteSets, TLC

VARIABLES
    documents,   \* DocumentStore.documents : dict  id -> content
    metadata,    \* DocumentStore.metadata  : dict  id -> metadata record
    now,         \* the wall clock read by datetime.now()
    result,      \* what the last tool function returned to its caller
    loaderLog,   \* what loader.load() did in the last tool call: "none", "returned", "raised"
    pc,          \* position of main(): "input", "invoke", "exited", "crashed"
    user_input,  \* main()'s user_input, the last line read, stripped
    printed,     \* the last line main() printed
    inserted,    \* history: ids in the order of their first add_document
    lastIns      \* history: per id, the arguments and time of its latest add_document

vars == <<documents, metadata, now, result, loaderLog, pc, user_input, printed, inserted, lastIns>>

----------------------------------------------------------------------------
(* Bounds of the model *)

MaxLen == 2       \* longest text the loader returns, longest keyword searched
MaxTime == 1      \* last value the clock reaches

----------------------------------------------------------------------------
(* Strings *)

Min(a, b) == IF a < b THEN a ELSE b

SeqsUpTo(S, n) == UNION { [1..k -> S] : k \in 0..n }

UpperCase == <<"A", "B", "C", "D", "E", "F", "G", "H", "I", "J", "K", "L", "M",
               "N", "O", "P", "Q", "R", "S", "T", "U", "V", "W", "X", "Y", "Z">>

LowerCase == <<"a", "b", "c", "d", "e", "f", "g", "h", "i", "j", "k", "l", "m",
               "n", "o", "p", "q", "r", "s", "t", "u", "v", "w", "x", "y", "z">>

Whitespace == {" ", "\t", "\n"}

\* str.lower() on one character
LowerChar(c) ==
    IF \E i \in 1..Len(UpperCase) : UpperCase[i] = c
    THEN LowerCase[CHOOSE i \in 1..Len(UpperCase) : UpperCase[i] = c]
    ELSE c

\* str.lower()
Lower(s) == [i \in 1..Len(s) |-> LowerChar(s[i])]

\* str.strip()
Strip(s) ==
    LET keep == { i \in 1..Len(s) : s[i] \notin Whitespace }
    IN  IF keep = {} THEN << >>
        ELSE SubSeq(s, CHOOSE i \in keep : \A j \in keep : i <= j,
                       CHOOSE i \in keep : \A j \in keep : j <= i)

\* Python's  sub in s  on strings
Contains(sub, s) ==
    \E i \in 0..(Len(s) - Len(sub)) : SubSeq(s, i + 1, i + Len(sub)) = sub

\* s.endswith(suffix)
EndsWith(s, suffix) ==
    /\ Len(suffix) <= Len(s)
    /\ SubSeq(s, Len(s) - Len(suffix) + 1, Len(s)) = suffix

\* s.rfind(c) + 1 : the position just after the last c, 0 when there is none
AfterLast(s, c) ==
    IF \E i \in 1..Len(s) : s[i] = c
    THEN CHOOSE i \in 1..Len(s) : s[i] = c /\ \A j \in (i + 1)..Len(s) : s[j] # c
    ELSE 0

\* s.split(c)[-1]
SplitLast(s, c) == SubSeq(s, AfterLast(s, c) + 1, Len(s))

\* os.path.basename(p)
Basename(p) == SubSeq(p, AfterLast(p, "/") + 1, Len(p))

\* "\n".join(pages)
RECURSIVE JoinLines(_)
JoinLines(pages) ==
    IF pages = << >> THEN << >>
    ELSE IF Len(pages) = 1 THEN pages[1]
    ELSE pages[1] \o <<"\n">> \o JoinLines(Tail(pages))

----------------------------------------------------------------------------
(* Inputs *)

Dirs == { << >>, <<"v", ".", "2", "/">> }

Basenames == { <<"r", ".", "p", "d", "f">>, <<"n">> }

\* the filepaths a caller supplies: every base filename under every directory
Filepaths == { d \o b : d \in Dirs, b \in Basenames }

ContentChars == {"A"}

\* what loader.load() returns: a list of documents (pages, rows), here none or one
LoaderOutputs == SeqsUpTo(SeqsUpTo(ContentChars, MaxLen), 1)

KeywordChars == {"a", "A", "b"}

Keywords == SeqsUpTo(KeywordChars, MaxLen)

Missing == <<"x">>

StoreIds == { Basename(p) : p \in Filepaths }

DocIds == StoreIds \cup { Missing }

\* lines the user types at the prompt
UserInputs ==
    { <<"q", "u", "i", "t">>, <<"E", "X", "I", "T", " ">>, <<" ", "Q", "u", "i", "t">>, << >>, <<" ">>, <<"h", "i">>, <<"q", "u", "i", "t", " ", "n", "o", "w">> }

----------------------------------------------------------------------------
(* Python dict *)

Keys(d) == [i \in 1..Len(d) |-> d[i].key]

HasKey(d, k) == \E i \in 1..Len(d) : d[i].key = k

IndexOf(d, k) == CHOOSE i \in 1..Len(d) : d[i].key = k

\* d[k] = v with a present key deleted and added again at the end
DictSet_MoveToEnd(d, k, v) ==
    Append(SelectSeq(d, LAMBDA e : e.key # k), [key |-> k, value |-> v])

\* d[k] = v
DictSet(d, k, v) ==
    IF HasKey(d, k)
    THEN [d EXCEPT ![IndexOf(d, k)] = [key |-> k, value |-> v]]
    ELSE Append(d, [key |-> k, value |-> v])

\* d.get(k) : <<v>> when present, << >> (None) when absent
DictGet(d, k) == IF HasKey(d, k) THEN << d[IndexOf(d, k)].value >> ELSE << >>

----------------------------------------------------------------------------
(* DocumentStore *)

NewMetadata(content, filepath) ==
    [ filepath    |-> filepath,
      upload_time |-> now,
      length      |-> Len(content),
      type        |-> SplitLast(filepath, ".") ]

\* add_document with the metadata stored under the filepath
add_document_KeyedByPath(document_id, content, filepath) ==
    /\ documents' = DictSet(documents, document_id, content)
    /\ metadata' = DictSet(metadata, filepath, NewMetadata(content, filepath))

\* add_document that leaves the metadata of a present id as it was
add_document_KeepsMetadata(document_id, content, filepath) ==
    /\ documents' = DictSet(documents, document_id, content)
    /\ metadata' = IF HasKey(metadata, document_id) THEN metadata
                   ELSE DictSet(metadata, document_id, NewMetadata(content, filepath))

add_document(document_id, content, filepath) ==
    /\ documents' = DictSet(documents, document_id, content)
    /\ metadata' = DictSet(metadata, document_id, NewMetadata(content, filepath))

get_document(document_id) == DictGet(documents, document_id)

get_metadata(document_id) == DictGet(metadata, document_id)

list_documents == Keys(documents)

\* the match without lowering the keyword
Matches_NoLowerKeyword(keyword, content) == Contains(keyword, Lower(content))

Matches(keyword, content) == Contains(Lower(keyword), Lower(content))

RECURSIVE ScanFrom(_, _, _)
ScanFrom(i, keyword, matches) ==
    IF i > Len(documents) THEN matches
    ELSE ScanFrom(i + 1, keyword,
                  IF Matches(keyword, documents[i].value)
                  THEN Append(matches, documents[i].key)
                  ELSE matches)

store_search_documents(keyword) == ScanFrom(1, keyword, << >>)

----------------------------------------------------------------------------
(* History of add_document calls, kept for stating the properties *)

NoCall == << >>

Range(s) == { s[i] : i \in 1..Len(s) }

RecordCall(document_id, content, filepath) ==
    /\ inserted' = IF document_id \in Range(inserted) THEN inserted
                   ELSE Append(inserted, document_id)
    /\ lastIns' = [lastIns EXCEPT ![document_id] =
                      << [content |-> content, filepath |-> filepath, time |-> now] >>]

----------------------------------------------------------------------------
(* Tool functions *)

PreviewLen == 500

Loaders == {"TextLoader", "PyPDFLoader", "UnstructuredWordDocumentLoader", "CSVLoader"}

\* the if / elif chain on the filepath's suffix
LoaderFor(filepath) ==
    IF EndsWith(filepath, <<".", "t", "x", "t">>) THEN "TextLoader"
    ELSE IF EndsWith(filepath, <<".", "p", "d", "f">>) THEN "PyPDFLoader"
    ELSE IF EndsWith(filepath, <<".", "d", "o", "c", "x">>) THEN "UnstructuredWordDocumentLoader"
    ELSE IF EndsWith(filepath, <<".", "c", "s", "v">>) THEN "CSVLoader"
    ELSE "TextLoader"

\* the f-string returned after a successful load
LoadReport(doc_id, meta, text) ==
    [ op          |-> "load_document",
      kind        |-> "loaded",
      id          |-> doc_id,
      type        |-> meta.type,
      length      |-> meta.length,
      upload_time |-> meta.upload_time,
      preview     |-> SubSeq(text, 1, Min(Len(text), PreviewLen)) \o <<".", ".", ".">> ]

\* f"Error loading document: {str(e)}"; the exception is named by the loader
\* that raised it, or by its type
LoadError(e) ==
    [ op |-> "load_document", kind |-> "error", error |-> e ]

\* load_document when loader.load() returns pages; subscripting a missing
\* (None) metadata raises TypeError inside the try block
LoadDocumentOk(filepath, pages) ==
    LET text   == JoinLines(pages)
        doc_id == Basename(filepath)
    IN  /\ LoaderFor(filepath) \in Loaders
        /\ add_document(doc_id, text, filepath)
        /\ RecordCall(doc_id, text, filepath)
        /\ result' = IF DictGet(metadata', doc_id) = << >>
                      THEN LoadError("TypeError")
                      ELSE LoadReport(doc_id, DictGet(metadata', doc_id)[1], text)
        /\ loaderLog' = "returned"

\* load_document that stores an empty document before the loader is run
LoadDocumentFails_StoresFirst(filepath) ==
    /\ add_document(Basename(filepath), << >>, filepath)
    /\ RecordCall(Basename(filepath), << >>, filepath)
    /\ result' = LoadError(LoaderFor(filepath))
    /\ loaderLog' = "raised"

\* load_document when loader.load() raises: the except clause returns the error string
LoadDocumentFails(filepath) ==
    /\ result' = LoadError(LoaderFor(filepath))
    /\ loaderLog' = "raised"
    /\ UNCHANGED <<documents, metadata, inserted, lastIns>>

load_document(filepath) ==
    \/ \E pages \in LoaderOutputs : LoadDocumentOk(filepath, pages)
    \/ LoadDocumentFails(filepath)

\* one "- id (type, length chars, loaded: time)" line
ReportLine(doc_id) ==
    LET meta == get_metadata(doc_id)[1]
    IN  [ id |-> doc_id, type |-> meta.type, length |-> meta.length,
          upload_time |-> meta.upload_time ]

ReportLines(docs) == [i \in 1..Len(docs) |-> ReportLine(docs[i])]

ListReport ==
    LET docs == list_documents
    IN  IF docs = << >>
        THEN [ op |-> "list_loaded_documents", kind |-> "message",
               text |-> "No documents loaded yet." ]
        ELSE [ op |-> "list_loaded_documents", kind |-> "report",
               header |-> "Loaded Documents:", lines |-> ReportLines(docs) ]

list_loaded_documents ==
    /\ result' = ListReport
    /\ loaderLog' = "none"
    /\ UNCHANGED <<documents, metadata, inserted, lastIns>>

SearchReport(keyword) ==
    LET docs == store_search_documents(keyword)
    IN  IF docs = << >>
        THEN [ op |-> "search_documents", kind |-> "message",
               text |-> "No documents found." ]
        ELSE [ op |-> "search_documents", kind |-> "report",
               header |-> "Search Results:", lines |-> ReportLines(docs) ]

search_documents(keyword) ==
    /\ result' = SearchReport(keyword)
    /\ loaderLog' = "none"
    /\ UNCHANGED <<documents, metadata, inserted, lastIns>>

\* f"Document {document_id} not found. Use list_loaded_documents to see all loaded documents."
NotFoundMessage(document_id) ==
    [ op |-> "get_document_content", kind |-> "not_found",
      document_id |-> document_id, use_tool |-> "list_loaded_documents" ]

\* the lookup with  if not content  in place of  if content is None
ContentResult_Falsy(document_id) ==
    LET content == get_document(document_id)
    IN  IF content = << >> \/ content[1] = << >>
        THEN NotFoundMessage(document_id)
        ELSE [ op |-> "get_document_content", kind |-> "content", text |-> content[1] ]

ContentResult(document_id) ==
    LET content == get_document(document_id)
    IN  IF content = << >>
        THEN NotFoundMessage(document_id)
        ELSE [ op |-> "get_document_content", kind |-> "content", text |-> content[1] ]

get_document_content(document_id) ==
    /\ result' = ContentResult(document_id)
    /\ loaderLog' = "none"
    /\ UNCHANGED <<documents, metadata, inserted, lastIns>>

----------------------------------------------------------------------------
(* The tools registered with the agent *)

tools ==
    << [ name |-> "load_document",        func |-> "load_document" ],
       [ name |-> "list_documents",       func |-> "list_loaded_documents" ],
       [ name |-> "get_document_content", func |-> "get_document_content" ] >>

ToolNames == { tools[i].name : i \in 1..Len(tools) }

\* running the function a registered tool is bound to, on arguments the LLM chose
CallFunc(func) ==
    CASE func = "load_document"         -> \E filepath \in Filepaths : load_document(filepath)
      [] func = "list_loaded_documents" -> list_loaded_documents
      [] func = "search_documents"      -> \E keyword \in Keywords : search_documents(keyword)
      [] func = "get_document_content"  -> \E document_id \in DocIds : get_document_content(document_id)

----------------------------------------------------------------------------
(* The store and the tool functions called directly *)

Init ==
    /\ documents = << >>
    /\ metadata = << >>
    /\ now = 0
    /\ result = [op |-> "none", kind |-> "none"]
    /\ loaderLog = "none"
    /\ pc = "input"
    /\ user_input = << >>
    /\ printed = "Type 'quit' to exit."
    /\ inserted = << >>
    /\ lastIns = [id \in DocIds |-> NoCall]

\* time passes
Tick ==
    /\ now < MaxTime
    /\ now' = now + 1
    /\ UNCHANGED <<documents, metadata, result, loaderLog, pc, user_input, printed, inserted, lastIns>>

LoadDocument ==
    /\ \E filepath \in Filepaths : load_document(filepath)
    /\ UNCHANGED <<now, pc, user_input, printed>>

ListLoadedDocuments ==
    /\ list_loaded_documents
    /\ UNCHANGED <<now, pc, user_input, printed>>

SearchDocuments ==
    /\ \E keyword \in Keywords : search_documents(keyword)
    /\ UNCHANGED <<now, pc, user_input, printed>>

GetDocumentContent ==
    /\ \E document_id \in DocIds : get_document_content(document_id)
    /\ UNCHANGED <<now, pc, user_input, printed>>

Next ==
    \/ Tick
    \/ LoadDocument
    \/ ListLoadedDocuments
    \/ SearchDocuments
    \/ GetDocumentContent

Spec == Init /\ [][Next]_vars

----------------------------------------------------------------------------
(* main(): the conversational loop over the agent executor *)

QuitTokens == { <<"q", "u", "i", "t">>, <<"e", "x", "i", "t">> }

\* input("\nYou: ").strip() returns a line, then the quit test and the empty test
ReadInput ==
    /\ pc = "input"
    /\ \E line \in UserInputs :
          /\ user_input' = Strip(line)
          /\ IF Lower(Strip(line)) \in QuitTokens
             THEN pc' = "exited" /\ printed' = "Goodbye!"
             ELSE IF Strip(line) = << >>
             THEN pc' = "input" /\ printed' = printed
             ELSE pc' = "invoke" /\ printed' = printed
    /\ UNCHANGED <<documents, metadata, now, result, loaderLog, inserted, lastIns>>

\* input() raises (EOFError when standard input ends, KeyboardInterrupt): the call
\* stands outside the try block, so the exception leaves main()
InputRaises ==
    /\ pc = "input"
    /\ pc' = "crashed"
    /\ printed' = "Traceback"
    /\ UNCHANGED <<documents, metadata, now, result, loaderLog, user_input, inserted, lastIns>>

\* agent_executor.invoke: the LLM calls one of the registered tools
AgentToolCall ==
    /\ pc = "invoke"
    /\ \E i \in 1..Len(tools) : CallFunc(tools[i].func)
    /\ UNCHANGED <<now, pc, user_input, printed>>

\* agent_executor.invoke returns the final answer, which is printed
InvokeReturns ==
    /\ pc = "invoke"
    /\ pc' = "input"
    /\ printed' = "Assistant: "
    /\ UNCHANGED <<documents, metadata, now, result, loaderLog, user_input, inserted, lastIns>>

\* agent_executor.invoke raises an Exception: the except clause prints it
InvokeRaises ==
    /\ pc = "invoke"
    /\ pc' = "input"
    /\ printed' = "Error: "
    /\ UNCHANGED <<documents, metadata, now, result, loaderLog, user_input, inserted, lastIns>>

NextAgent ==
    \/ Tick
    \/ ReadInput
    \/ InputRaises
    \/ AgentToolCall
    \/ InvokeReturns
    \/ InvokeRaises

SpecAgent == Init /\ [][NextAgent]_vars

----------------------------------------------------------------------------
(* Properties *)

IsStored(id) == id \in Range(inserted)

Latest(id) == lastIns[id][1]

\* C1: in every reachable state the ids of the content mapping are the ids of
\* the metadata mapping, and each id has exactly one entry in each mapping.
C1_SameIds ==
    /\ Range(Keys(documents)) = Range(Keys(metadata))
    /\ Cardinality(Range(Keys(documents))) = Len(documents)
    /\ Cardinality(Range(Keys(metadata))) = Len(metadata)

C1_Witness ==
    /\ Len(documents) = 2
    /\ Len(metadata) = 2
    /\ \E i \in 1..2 : metadata[i].value.filepath # metadata[i].key
    /\ result.op = "list_loaded_documents"

\* C2: list_documents() is the ids ever inserted, each once, in the order of
\* their first insertion; an id inserted again keeps its place and none is lost.
C2_ListIsFirstInsertionOrder ==
    /\ list_documents = inserted
    /\ Cardinality(Range(list_documents)) = Len(list_documents)

C2_Witness ==
    /\ Len(inserted) = 2
    /\ list_documents = inserted
    /\ Latest(inserted[1]).time > Latest(inserted[2]).time

\* C3: a load_document call whose loader raises returns the error string as its
\* result and leaves both mappings as they were; the mappings change only in a
\* call whose loader returned, which reports the document as loaded.
C3_FailedLoadLeavesStore ==
    [][ /\ loaderLog' = "raised" =>
              /\ result'.op = "load_document"
              /\ result'.kind = "error"
              /\ documents' = documents
              /\ metadata' = metadata
        /\ (documents' # documents \/ metadata' # metadata) =>
              /\ loaderLog' = "returned"
              /\ result'.kind = "loaded" ]_vars

C3_Witness ==
    /\ loaderLog = "raised"
    /\ result.kind = "error"
    /\ Len(documents) = 2

\* C4: get_document_content(id) is the stored content, also when that content
\* is the empty string, and the not-found guidance carrying the id when the id
\* was never inserted.
C4_ContentOrNotFound ==
    \A id \in DocIds :
        LET r == ContentResult(id)
        IN  IF IsStored(id)
            THEN r.kind = "content" /\ r.text = Latest(id).content
            ELSE r.kind = "not_found" /\ r.document_id = id

C4_Witness ==
    /\ result.op = "get_document_content"
    /\ result.kind = "content"
    /\ result.text = << >>
    /\ \E id \in DocIds : ~IsStored(id)

\* C5: whenever the agent is choosing a tool, all four tool-layer operations
\* are among the tools it can invoke, search_documents included.
C5_AllFourToolsRegistered ==
    pc = "invoke" =>
        \A name \in {"load_document", "list_documents", "get_document_content",
                     "search_documents"} :
            \E i \in 1..Len(tools) : tools[i].name = name

\* C6: main() ends only on the user's quit or exit, with the farewell printed.
C6_EndsOnlyOnQuit ==
    pc \in {"exited", "crashed"} =>
        /\ Lower(user_input) \in QuitTokens
        /\ printed = "Goodbye!"

\* the two characters are the same letter, case aside
SameLetter(c, d) ==
    \/ c = d
    \/ \E i \in 1..Len(UpperCase) :
          {c, d} = {UpperCase[i], LowerCase[i]}

\* keyword occurs in content at some offset, letters compared case aside
OccursIn(keyword, content) ==
    \E off \in 0..(Len(content) - Len(keyword)) :
        \A j \in 1..Len(keyword) : SameLetter(keyword[j], content[off + j])

\* C7: search_documents(keyword) is the ids, in first-insertion order and each
\* once, of the documents whose content holds the keyword case-insensitively;
\* the empty keyword finds every id and an empty document only answers to it.
C7_SearchIsCaseInsensitiveScan ==
    /\ \A keyword \in Keywords :
          store_search_documents(keyword) =
              SelectSeq(inserted, LAMBDA id : OccursIn(keyword, Latest(id).content))
    /\ store_search_documents(<< >>) = inserted
    /\ \A keyword \in Keywords \ { << >> } :
          \A id \in Range(store_search_documents(keyword)) : Latest(id).content # << >>

C7_Witness ==
    /\ result.op = "search_documents"
    /\ result.kind = "report"
    /\ Len(result.lines) = 1
    /\ Len(documents) = 2
    /\ \E keyword \in Keywords :
          /\ keyword # Lower(keyword)
          /\ Len(store_search_documents(keyword)) = 1

\* C8: for every stored id the content and the metadata are those of the most
\* recent insertion under that id: its content, its filepath, the length of
\* that content and the time of that call; an id never inserted has neither.
C8_LastWriteWins ==
    \A id \in DocIds :
        IF IsStored(id)
        THEN /\ get_document(id) = << Latest(id).content >>
             /\ get_metadata(id) # << >>
             /\ get_metadata(id)[1].filepath = Latest(id).filepath
             /\ get_metadata(id)[1].length = Len(Latest(id).content)
             /\ get_metadata(id)[1].upload_time = Latest(id).time
        ELSE get_document(id) = << >> /\ get_metadata(id) = << >>

\* the first id was loaded before the second, and again later from a directory
C8_Witness ==
    /\ Len(inserted) = 2
    /\ Latest(inserted[2]).time = 0
    /\ Latest(inserted[1]).time = 1
    /\ Latest(inserted[1]).filepath # inserted[1]
    /\ get_metadata(inserted[1])[1].upload_time = 1

\* C9: the type recorded for a document is the extension of its last path
\* segment, whatever directory the file was loaded from.
C9_TypeIndependentOfDirectory ==
    \A i \in 1..Len(metadata) :
        metadata[i].value.type = SplitLast(metadata[i].key, ".")

\* C10: the not-found guidance names a tool that is registered with the agent.
C10_GuidanceNamesRegisteredTool ==
    result.kind = "not_found" => result.use_tool \in ToolNames

====
